---- MODULE Spec2Model ----
(***************************************************************************)
(* Model of eth-abi (src/eth-abi/src/lib.rs): the parameter type parser    *)
(* ParamType::from_str, the predicates maybe_dynamic / is_dynamic, the     *)
(* single value encoder encode_single with parse_bytes, and Params::encode.*)
(*                                                                         *)
(* A text is a sequence of characters, each a one-character string or, for *)
(* a character outside ASCII, its code point ("U+00E9"); as_bytes gives    *)
(* the UTF-8 bytes.  A U256 is a sequence of 32 base-256 digits, least     *)
(* significant first.  A Rust Result is a record [kind, val] with kind     *)
(* "Ok" or "Err"; a panic (unwrap on Err, a failed assert, an arithmetic   *)
(* overflow) is kind "Panic".                                              *)
(***************************************************************************)
EXTENDS Integers, Sequences, FiniteSets, TLC

VARIABLES pc, op, s, param_type, value_str, self_items, items, total_offset, buf, ret

vars == <<pc, op, s, param_type, value_str, self_items, items, total_offset, buf, ret>>

----------------------------------------------------------------------------
(* Results *)

Ok(v) == [kind |-> "Ok", val |-> v]

Err(m) == [kind |-> "Err", val |-> m]

Panic(m) == [kind |-> "Panic", val |-> m]

NoRet == [kind |-> "None", val |-> ""]

----------------------------------------------------------------------------
(* Text and bytes *)

DigitChars == <<"0", "1", "2", "3", "4", "5", "6", "7", "8", "9">>

IsDigit(c) == \E i \in 1..10 : DigitChars[i] = c

DigitVal(c) == (CHOOSE i \in 1..10 : DigitChars[i] = c) - 1

HexLowerChars == <<"a", "b", "c", "d", "e", "f">>

IsHexLower(c) == \E i \in 1..6 : HexLowerChars[i] = c

HexLowerVal(c) == (CHOOSE i \in 1..6 : HexLowerChars[i] = c) + 9

HexUpperChars == <<"A", "B", "C", "D", "E", "F">>

IsHexUpper(c) == \E i \in 1..6 : HexUpperChars[i] = c

HexUpperVal(c) == (CHOOSE i \in 1..6 : HexUpperChars[i] = c) + 9

IsHexSpace(c) == c \in {" ", "\r", "\n", "\t"}

\* UTF-8 encoding of one character of the alphabet the model uses.
Utf8(c) ==
    IF IsDigit(c) THEN <<48 + DigitVal(c)>>
    ELSE IF IsHexLower(c) THEN <<87 + HexLowerVal(c)>>
    ELSE IF IsHexUpper(c) THEN <<55 + HexUpperVal(c)>>
    ELSE CASE c = " " -> <<32>>
           [] c = "+" -> <<43>>
           [] c = "-" -> <<45>>
           [] c = "[" -> <<91>>
           [] c = "]" -> <<93>>
           [] c = "g" -> <<103>>
           [] c = "i" -> <<105>>
           [] c = "l" -> <<108>>
           [] c = "n" -> <<110>>
           [] c = "o" -> <<111>>
           [] c = "r" -> <<114>>
           [] c = "s" -> <<115>>
           [] c = "t" -> <<116>>
           [] c = "u" -> <<117>>
           [] c = "v" -> <<118>>
           [] c = "x" -> <<120>>
           [] c = "y" -> <<121>>
           [] c = "z" -> <<122>>
           [] c = "U+00E9" -> <<195, 169>>
           [] c = "U+20AC" -> <<226, 130, 172>>

RECURSIVE as_bytes(_)
\* str::as_bytes: the UTF-8 bytes of a text.
as_bytes(str) ==
    IF str = <<>> THEN <<>> ELSE Utf8(Head(str)) \o as_bytes(Tail(str))

\* str::chars().count()
chars_count(str) == Len(str)

\* str::starts_with for a prefix given as a text.
starts_with(str, p) == Len(str) >= Len(p) /\ SubSeq(str, 1, Len(p)) = p

\* str::ends_with
ends_with(str, p) ==
    Len(str) >= Len(p) /\ SubSeq(str, Len(str) - Len(p) + 1, Len(str)) = p

\* &str[n..] for an n that lies on a character boundary (all uses follow an
\* ASCII prefix).
skip_chars(str, n) == SubSeq(str, n + 1, Len(str))

RECURSIVE repeat_zero(_)
\* std::iter::repeat(0u8).take(n)
repeat_zero(n) == IF n = 0 THEN <<>> ELSE <<0>> \o repeat_zero(n - 1)

\* One turn of the loop of rustc_hex's FromHex for str: white space is
\* skipped, a hex digit fills the high then the low nibble of the next byte,
\* any other character is an error.
from_hex_step(st, c) ==
    IF st.kind # "Ok" \/ IsHexSpace(c) THEN st
    ELSE IF ~(IsDigit(c) \/ IsHexLower(c) \/ IsHexUpper(c))
    THEN [st EXCEPT !.kind = "Err"]
    ELSE LET d == IF IsDigit(c) THEN DigitVal(c)
                  ELSE IF IsHexLower(c) THEN HexLowerVal(c)
                  ELSE HexUpperVal(c)
         IN IF st.modulus = 1
            THEN [st EXCEPT !.val = Append(st.val, st.nibble * 16 + d),
                            !.modulus = 0, !.nibble = 0]
            ELSE [st EXCEPT !.modulus = 1, !.nibble = d]

RECURSIVE from_hex_loop(_, _, _, _)
\* The loop over the characters lo..hi, left to right (the range is split in
\* halves only to keep the evaluation shallow).
from_hex_loop(str, lo, hi, st) ==
    IF lo > hi THEN st
    ELSE IF lo = hi THEN from_hex_step(st, str[lo])
    ELSE LET mid == (lo + hi) \div 2
             left == from_hex_loop(str, lo, mid, st)
         IN IF left.kind # "Ok" THEN left
            ELSE from_hex_loop(str, mid + 1, hi, left)

\* FromHex::from_hex: a dangling digit at the end is an error as well.
from_hex(str) ==
    LET st == from_hex_loop(str, 1, Len(str),
                            [kind |-> "Ok", val |-> <<>>, modulus |-> 0, nibble |-> 0])
    IN IF st.kind # "Ok" THEN Err("InvalidHexCharacter")
       ELSE IF st.modulus # 0 THEN Err("InvalidHexLength")
       ELSE Ok(st.val)

----------------------------------------------------------------------------
(* U256: 32 base-256 digits, least significant first (the limb order of *)
(* the uint crate); big-endian bytes only at from(&[u8]) / to_big_endian *)

WordBytes == 32

RECURSIVE reverse(_)
reverse(q) == IF q = <<>> THEN <<>> ELSE Append(reverse(Tail(q)), Head(q))

U256_zero == [i \in 1..WordBytes |-> 0]

RECURSIVE mul_add_from(_, _, _, _)
\* digits i..32 of v * m + carry, from the least significant digit up; the
\* carry out of digit 32 is the overflow.
mul_add_from(v, i, m, carry) ==
    IF i > WordBytes THEN [val |-> <<>>, carry |-> carry]
    ELSE LET t == v[i] * m + carry
             hi == mul_add_from(v, i + 1, m, t \div 256)
         IN [val |-> <<t % 256>> \o hi.val, carry |-> hi.carry]

\* U256::overflowing_mul_u32
overflowing_mul_u32(v, m) ==
    LET r == mul_add_from(v, 1, m, 0)
    IN [val |-> r.val, overflow |-> r.carry > 0]

\* U256::overflowing_add with a one-digit right operand
overflowing_add(v, a) ==
    LET r == mul_add_from(v, 1, 1, a)
    IN [val |-> r.val, overflow |-> r.carry > 0]

\* U256::from(&[u8]): asserts the slice has at most 32 bytes, then reads it
\* as a big-endian number.
U256_from_slice(bytes) ==
    IF Len(bytes) > WordBytes THEN Panic("assert")
    ELSE Ok(reverse(bytes) \o repeat_zero(WordBytes - Len(bytes)))

\* One turn of the loop of from_dec_str: res * 10 + digit, an error once
\* either step overflows.
from_dec_step(acc, c) ==
    IF acc.kind # "Ok" THEN acc
    ELSE LET m == overflowing_mul_u32(acc.val, 10) IN
         IF m.overflow THEN Err("InvalidLength")
         ELSE LET a == overflowing_add(m.val, DigitVal(c)) IN
              IF a.overflow THEN Err("InvalidLength") ELSE Ok(a.val)

RECURSIVE from_dec_loop(_, _, _, _)
\* The loop of from_dec_str over the characters lo..hi, left to right (the
\* range is split in halves only to keep the evaluation shallow).
from_dec_loop(str, lo, hi, acc) ==
    IF lo > hi THEN acc
    ELSE IF lo = hi THEN from_dec_step(acc, str[lo])
    ELSE LET mid == (lo + hi) \div 2
             left == from_dec_loop(str, lo, mid, acc)
         IN IF left.kind # "Ok" THEN left
            ELSE from_dec_loop(str, mid + 1, hi, left)

\* U256::from_dec_str: every byte must be an ASCII digit; the empty text
\* is zero; a value of 2^256 or more is an error.
from_dec_str(str) ==
    IF \E i \in 1..Len(str) : ~IsDigit(str[i]) THEN Err("InvalidCharacter")
    ELSE from_dec_loop(str, 1, Len(str), Ok(U256_zero))

\* value >= U256::from(2).pow(U256::from(m)) for m < 256: some bit at
\* position m or above is set.
U256_ge_pow2(v, m) ==
    \E i \in 1..WordBytes :
        LET lowbit == 8 * (i - 1) IN
        \/ lowbit >= m /\ v[i] # 0
        \/ lowbit < m /\ lowbit + 8 > m /\ v[i] \div (2 ^ (m - lowbit)) # 0

\* !value
U256_not(v) == [i \in 1..WordBytes |-> 255 - v[i]]

\* value + U256::one(): Add panics on overflow.
U256_add_one(v) ==
    LET r == overflowing_add(v, 1)
    IN IF r.overflow THEN Panic("arithmetic operation overflow") ELSE Ok(r.val)

\* U256::to_big_endian into a [0u8; 32] buffer: most significant byte first.
to_big_endian(v) == reverse(v)

----------------------------------------------------------------------------
(* ParamType *)

Address == [tag |-> "Address"]

Bytes == [tag |-> "Bytes"]

IntN(m) == [tag |-> "Int", m |-> m]

Uint(m) == [tag |-> "Uint", m |-> m]

Bool == [tag |-> "Bool"]

Fixed(m, n) == [tag |-> "Fixed", m |-> m, n |-> n]

Ufixed(m, n) == [tag |-> "Ufixed", m |-> m, n |-> n]

String == [tag |-> "String"]

Array(t) == [tag |-> "Array", elem |-> t]

FixedBytes(m) == [tag |-> "FixedBytes", m |-> m]

FixedArray(t, n) == [tag |-> "FixedArray", elem |-> t, len |-> n]

Tuple(ts) == [tag |-> "Tuple", members |-> ts]

----------------------------------------------------------------------------
(* ParamType::from_str *)

RECURSIVE dec_value(_, _)
dec_value(digits, acc) ==
    IF digits = <<>> THEN acc
    ELSE dec_value(Tail(digits), acc * 10 + DigitVal(Head(digits)))

\* str::parse::<usize>: an optional "+", then one or more ASCII digits.
\* (Texts here stay far below the 20 digits at which usize overflows.)
parse_usize(str) ==
    LET digits == IF str # <<>> /\ Head(str) = "+" THEN Tail(str) ELSE str IN
    IF str = <<>> THEN Err("Empty")
    ELSE IF digits = <<>> THEN Err("InvalidDigit")
    ELSE IF \E i \in 1..Len(digits) : ~IsDigit(digits[i]) THEN Err("InvalidDigit")
    ELSE Ok(dec_value(digits, 0))

RECURSIVE bracket_num(_)
\* s.chars().rev().skip(1).take_while(|c| *c != '[') reversed back: the
\* characters between the last '[' (or the start of s) and the final one.
bracket_num(body) ==
    IF body = <<>> \/ body[Len(body)] = "[" THEN <<>>
    ELSE Append(bracket_num(SubSeq(body, 1, Len(body) - 1)), body[Len(body)])

\* Arms of the match on a base token for "int<N>" and "uint<N>".
sized_int(str, skip, signed) ==
    LET len == parse_usize(skip_chars(str, skip)) IN
    IF len.kind # "Ok" THEN Err("Invalid param type")
    ELSE IF len.val < 8 \/ len.val > 256 \/ len.val % 8 # 0
    THEN Err("Invalid param type")
    ELSE Ok(IF signed THEN IntN(len.val) ELSE Uint(len.val))

\* Offset at which the "bytes<N>" arm starts to read N.
BytesSuffixStart == 4

\* Arm of the match for "bytes<N>".
sized_bytes(str) ==
    LET len == parse_usize(skip_chars(str, BytesSuffixStart)) IN
    IF len.kind # "Ok" THEN Err("Invalid param type")
    ELSE IF len.val <= 0 \/ len.val > 32 THEN Err("Invalid param type")
    ELSE Ok(FixedBytes(len.val))

\* The match on a base token.
from_str_base(str) ==
    IF str = <<"a", "d", "d", "r", "e", "s", "s">> THEN Ok(Address)
    ELSE IF str = <<"b", "o", "o", "l">> THEN Ok(Bool)
    ELSE IF str = <<"b", "y", "t", "e", "s">> THEN Ok(Bytes)
    ELSE IF str = <<"s", "t", "r", "i", "n", "g">> THEN Ok(String)
    ELSE IF str = <<"i", "n", "t">> THEN Ok(IntN(256))
    ELSE IF str = <<"u", "i", "n", "t">> THEN Ok(Uint(256))
    ELSE IF starts_with(str, <<"i", "n", "t">>) THEN sized_int(str, 3, TRUE)
    ELSE IF starts_with(str, <<"u", "i", "n", "t">>) THEN sized_int(str, 4, FALSE)
    ELSE IF starts_with(str, <<"b", "y", "t", "e", "s">>) THEN sized_bytes(str)
    ELSE Err("Invalid param type")

RECURSIVE from_str(_)
from_str(str) ==
    IF ends_with(str, <<"[", "]">>)
    THEN LET subtype == from_str(SubSeq(str, 1, Len(str) - 2)) IN
         IF subtype.kind = "Ok" THEN Ok(Array(subtype.val)) ELSE subtype
    ELSE IF str # <<>> /\ str[Len(str)] = "]"
    THEN LET num == bracket_num(SubSeq(str, 1, Len(str) - 1))
             len == parse_usize(num)
             cut == Len(as_bytes(str)) - Len(as_bytes(num)) - 2
         IN IF len.kind # "Ok" THEN Err("Invalid param type")
            ELSE IF cut < 0 THEN Panic("attempt to subtract with overflow")
            ELSE LET subtype == from_str(SubSeq(str, 1, Len(str) - Len(num) - 2)) IN
                 IF subtype.kind = "Ok"
                 THEN Ok(FixedArray(subtype.val, len.val))
                 ELSE subtype
    ELSE from_str_base(str)

----------------------------------------------------------------------------
(* ParamType::value_length, maybe_dynamic, is_dynamic *)

value_length(t, str) == 32

maybe_dynamic(t) == t.tag \in {"Bytes", "String", "Array", "FixedArray", "Tuple"}

RECURSIVE is_dynamic_unguarded(_)
\* is_dynamic without the `*len > 0` guard on FixedArray.
is_dynamic_unguarded(t) ==
    IF t.tag \in {"Bytes", "String", "Array"} THEN TRUE
    ELSE IF t.tag = "FixedArray" THEN is_dynamic_unguarded(t.elem)
    ELSE IF t.tag = "Tuple" /\ Len(t.members) > 0
    THEN \E i \in 1..Len(t.members) : is_dynamic_unguarded(t.members[i])
    ELSE FALSE

RECURSIVE is_dynamic(_)
is_dynamic(t) ==
    IF t.tag \in {"Bytes", "String", "Array"} THEN TRUE
    ELSE IF t.tag = "FixedArray" /\ t.len > 0 THEN is_dynamic(t.elem)
    ELSE IF t.tag = "Tuple" /\ Len(t.members) > 0
    THEN \E i \in 1..Len(t.members) : is_dynamic(t.members[i])
    ELSE FALSE

----------------------------------------------------------------------------
(* parse_bytes and encode_single *)

\* parse_bytes: the literal's bytes (hex-decoded after "0x", unwrap panics
\* on bad hex), their count, and the bytes zero-padded to a multiple of 32
\* when the count is not one already.
parse_bytes(str) ==
    LET decoded == IF starts_with(str, <<"0", "x">>)
                   THEN from_hex(skip_chars(str, 2))
                   ELSE Ok(as_bytes(str))
    IN IF decoded.kind # "Ok" THEN Panic("unwrap")
       ELSE LET len == Len(decoded.val)
                padding_len == IF len % 32 > 0 THEN 32 - (len % 32) ELSE 0
            IN [kind |-> "Ok", len |-> len,
                val |-> decoded.val \o repeat_zero(padding_len)]

RECURSIVE to_dec_string(_)
\* format!("{}", n) for a usize
to_dec_string(n) ==
    IF n < 10 THEN <<DigitChars[n + 1]>>
    ELSE Append(to_dec_string(n \div 10), DigitChars[(n % 10) + 1])

\* signed_value without the negation: the magnitude goes out as it is.
signed_value_unnegated(value, negative) == Ok(value)

\* let value = if negative { (!value) + U256::one() } else { value }
signed_value(value, negative) ==
    IF negative THEN U256_add_one(U256_not(value)) ELSE Ok(value)

\* The Uint / Int arm of encode_single.
encode_int(t, str) ==
    LET hex == starts_with(str, <<"0", "x">>)
        minus == ~hex /\ starts_with(str, <<"-">>)
        negative == minus
        parsed == IF hex
                  THEN LET h == from_hex(skip_chars(str, 2)) IN
                       IF h.kind # "Ok" THEN Panic("unwrap")
                       ELSE U256_from_slice(h.val)
                  ELSE LET d == from_dec_str(IF minus THEN skip_chars(str, 1) ELSE str) IN
                       IF d.kind # "Ok" THEN Panic("unwrap") ELSE d
    IN IF minus /\ t.tag = "Uint" THEN Err("Invalid value")
       ELSE IF parsed.kind # "Ok" THEN parsed
       ELSE IF t.m < 256 /\ U256_ge_pow2(parsed.val, t.m) THEN Err("Overflow")
       ELSE LET value == signed_value(parsed.val, negative)
            IN IF value.kind # "Ok" THEN value
               ELSE Ok(to_big_endian(value.val))

\* The Fixed / Ufixed arms of encode_single.
encode_fixed(t, str) == Ok(<<>>)

\* The FixedBytes arm of encode_single.
encode_fixed_bytes(t, str) ==
    LET p == parse_bytes(str) IN
    IF p.kind # "Ok" THEN Panic("unwrap")
    ELSE IF p.len > t.m THEN Err("Error value length")
    ELSE Ok(p.val)

\* Bytes rejects a literal with more bytes than characters.
bytes_len_ok(len, str) == ~(len > chars_count(str))

RECURSIVE encode_single(_, _)
encode_single(t, str) ==
    IF t.tag = "Address"
    THEN encode_single(Uint(160),
                       IF starts_with(str, <<"0", "x">>) THEN skip_chars(str, 2) ELSE str)
    ELSE IF t.tag \in {"Uint", "Int"} THEN encode_int(t, str)
    ELSE IF t.tag = "Bool"
    THEN IF str = <<"t", "r", "u", "e">> THEN encode_single(Uint(8), <<"1">>)
         ELSE IF str = <<"f", "a", "l", "s", "e">> THEN encode_single(Uint(8), <<"0">>)
         ELSE Err("Invalid value for bool")
    ELSE IF t.tag \in {"Fixed", "Ufixed"} THEN encode_fixed(t, str)
    ELSE IF t.tag = "FixedBytes" THEN encode_fixed_bytes(t, str)
    ELSE IF t.tag = "Bytes"
    THEN LET p == parse_bytes(str) IN
         IF p.kind # "Ok" THEN Panic("unwrap")
         ELSE IF ~bytes_len_ok(p.len, str) THEN Err("Value is not bytes")
         ELSE LET w == encode_single(Uint(256), to_dec_string(p.len)) IN
              IF w.kind # "Ok" THEN Panic("unwrap") ELSE Ok(w.val \o p.val)
    ELSE IF t.tag = "String"
    THEN LET p == parse_bytes(str) IN
         IF p.kind # "Ok" THEN Panic("unwrap")
         ELSE LET w == encode_single(Uint(256), to_dec_string(p.len)) IN
              IF w.kind # "Ok" THEN Panic("unwrap") ELSE Ok(w.val \o p.val)
    ELSE Err("Cannot encode single dynamic type")

----------------------------------------------------------------------------
(* Bounds and the inputs the calls are made with *)

MaxLitLen == 3

MaxSuffixLen == 3

MaxDims == 2

MaxItems == 2

MaxTupleLen == 2

MaxArrLen == 1

MaxDepth == 2

SeqsUpTo(S, n) == UNION {[1..k -> S] : k \in 0..n}

\* The widths Int and Uint are declared for.
BitsSet == {8 * k : k \in 1..32}

\* Naturals below 2^264 as 33 base-256 digits, most significant first.
BigLen == 33

BigPow2(k) ==
    [i \in 1..BigLen |->
        LET j == BigLen - i IN IF j = k \div 8 THEN 2 ^ (k % 8) ELSE 0]

BigIsZero(v) == \A i \in 1..Len(v) : v[i] = 0

RECURSIVE BigDiv10From(_, _, _)
\* Long division by ten from the most significant digit: the quotient digits
\* from index i on and the final remainder.
BigDiv10From(v, i, rem) ==
    IF i > Len(v) THEN [q |-> <<>>, rem |-> rem]
    ELSE LET cur == rem * 256 + v[i]
             d == cur \div 10
             lo == BigDiv10From(v, i + 1, cur % 10)
         IN [q |-> <<d>> \o lo.q, rem |-> lo.rem]

\* One step of the conversion to decimal: the next digit, least significant
\* first, until the quotient is used up.
BigToDecStep(st) ==
    IF st.done THEN st
    ELSE LET d == BigDiv10From(st.q, 1, 0) IN
         [q |-> d.q, text |-> <<DigitChars[d.rem + 1]>> \o st.text,
          done |-> BigIsZero(d.q)]

RECURSIVE BigToDecIter(_, _)
BigToDecIter(st, n) ==
    IF n = 0 THEN st
    ELSE IF n = 1 THEN BigToDecStep(st)
    ELSE LET half == BigToDecIter(st, n \div 2) IN
         IF half.done THEN half ELSE BigToDecIter(half, n - (n \div 2))

\* The canonical decimal text of a natural of at most 33 bytes (80 digits).
BigToDec(v) == BigToDecIter([q |-> v, text |-> <<>>, done |-> FALSE], 80).text

\* The decimal texts of 2^bits and 2^(bits - 1) for every declared width.
Pow2Dec == [k \in BitsSet \cup {b - 1 : b \in BitsSet} |-> BigToDec(BigPow2(k))]

\* The decimal text of n + d for d in {-1, 0, 1} and an n that ends in one
\* of the digits 1..8 (as every power of two above 1 does).
DecShift(t, d) == [t EXCEPT ![Len(t)] = DigitChars[DigitVal(t[Len(t)]) + d + 1]]

\* Decimal literals around the edges of the unsigned and the signed range,
\* with and without a minus sign.
BoundaryLits(bits) ==
    UNION {{DecShift(Pow2Dec[k], d), <<"-">> \o DecShift(Pow2Dec[k], d)} :
              <<k, d>> \in {bits, bits - 1} \X {-1, 0, 1}}

LitChars == {"0", "1", "x", "-", "f", "z", "U+00E9"}

ShortLits == SeqsUpTo(LitChars, MaxLitLen)

RECURSIVE repeat_text(_, _)
repeat_text(t, n) == IF n = 0 THEN <<>> ELSE t \o repeat_text(t, n - 1)

TextLits ==
    {<<"t", "r", "u", "e">>, <<"f", "a", "l", "s", "e">>, <<"d", "a", "v", "e">>,
     <<"-", "3", "3", "3">>, <<"-", "1", "2", "9">>, <<"-", "1", "2", "8">>,
     <<"2", "5", "6">>, <<"2", "5", "5">>, <<"0", "0", "7">>,
     <<"0", "x", "0", "1", "0", "2", "0", "3", "0", "4", "0", "5">>,
     <<"0", "x", "0", "1", "0", "2", "0", "3", "0", "4">>,
     <<"0", "x", "F", "f", " ", "0", "1">>,
     <<"d", "U+00E9", "U+20AC">>,
     repeat_text(<<"a">>, 31), repeat_text(<<"a">>, 32), repeat_text(<<"a">>, 33),
     <<"0", "x">> \o repeat_text(<<"f", "f">>, 32),
     <<"0", "x">> \o repeat_text(<<"f", "f">>, 33),
     <<"0", "x">> \o repeat_text(<<"f", "f">>, 30) \o <<"f", "e", "b", "3">>}

NumTypes == {Uint(b) : b \in BitsSet} \cup {IntN(b) : b \in BitsSet}

FixedParams == {8, 128} \X {0, 18}

ScalarTypes ==
    NumTypes \cup {Address, Bool, Bytes, String}
    \cup {FixedBytes(n) : n \in 1..32}
    \cup {Fixed(p[1], p[2]) : p \in FixedParams}
    \cup {Ufixed(p[1], p[2]) : p \in FixedParams}

ElemLeaves == {Uint(256), Bytes}

\* The tuples of k members with at most one member that is not a leaf: the
\* leaves ls with member j replaced by a type of S.
TuplesOf(S, k) ==
    {Tuple([i \in 1..k |-> IF i = q[2] THEN q[3] ELSE q[1][i]]) :
        q \in [1..k -> ElemLeaves] \X (1..k) \X S}

\* Array, FixedArray and Tuple types over the types S.
Composites(S) ==
    {Array(t) : t \in S}
    \cup {FixedArray(p[1], p[2]) : p \in S \X (0..MaxArrLen)}
    \cup {Tuple(<<>>)}
    \cup UNION {TuplesOf(S, k) : k \in 1..MaxTupleLen}

RECURSIVE TypesUpTo(_)
\* The types of nesting depth d or less.
TypesUpTo(d) ==
    IF d = 0 THEN ElemLeaves
    ELSE LET S == TypesUpTo(d - 1) IN S \cup Composites(S)

AllTypes == ScalarTypes \cup TypesUpTo(MaxDepth)

\* The types every short literal is tried with.
ShortLitTypes ==
    {Uint(8), Uint(256), IntN(8), IntN(256), Address, Bool, Bytes, String,
     FixedBytes(1), FixedBytes(2), FixedBytes(3), FixedBytes(32),
     Fixed(128, 18), Ufixed(128, 18)}

\* Every width with the literals at the edges of its own range, and with
\* the largest value of 256 bits and the one after it.
BoundaryInputs ==
    UNION {{Uint(b), IntN(b)}
             \X (BoundaryLits(b) \cup {DecShift(Pow2Dec[256], -1), Pow2Dec[256]}) :
           b \in BitsSet}
    \cup ({Address} \X BoundaryLits(160))

EncodeInputs ==
    (ShortLitTypes \X ShortLits)
    \cup BoundaryInputs
    \cup ((ScalarTypes \cup TypesUpTo(1)) \X TextLits)

BaseTokens ==
    {<<"a", "d", "d", "r", "e", "s", "s">>, <<"b", "o", "o", "l">>,
     <<"b", "y", "t", "e", "s">>, <<"s", "t", "r", "i", "n", "g">>,
     <<"i", "n", "t">>, <<"u", "i", "n", "t">>, <<>>, <<"f", "i", "x", "e", "d">>}

SizedPrefixes == {<<"i", "n", "t">>, <<"u", "i", "n", "t">>, <<"b", "y", "t", "e", "s">>}

SuffixChars == {"0", "1", "2", "3", "6", "8", "+", "x"}

SizedTokens ==
    {p[1] \o p[2] : p \in SizedPrefixes \X (SeqsUpTo(SuffixChars, MaxSuffixLen) \ {<<>>})}

DimTexts ==
    {<<"[", "]">>, <<"[", "2", "]">>, <<"[", "3", "]">>, <<"[", "0", "]">>,
     <<"[", "x", "]">>, <<"5", "]">>, <<"]">>}

RECURSIVE concat(_)
concat(ts) == IF ts = <<>> THEN <<>> ELSE Head(ts) \o concat(Tail(ts))

ArrayTokens ==
    {p[1] \o concat(p[2]) :
        p \in (BaseTokens \cup {<<"u", "i", "n", "t", "1", "2", "8">>,
                                <<"b", "y", "t", "e", "s", "4">>,
                                <<"i", "n", "t", "x">>})
              \X (SeqsUpTo(DimTexts, MaxDims) \ {<<>>})}

TypeStrings == BaseTokens \cup SizedTokens \cup ArrayTokens

NoType == [tag |-> "None"]

Item(t, lit) == [param_type |-> t, value_str |-> lit]

ItemChoices ==
    {Item(Uint(256), <<"3">>), Item(Bool, <<"t", "r", "u", "e">>),
     Item(IntN(8), <<"-", "1">>), Item(FixedBytes(4), <<"a", "b">>),
     Item(String, <<"d", "a", "v", "e">>), Item(Bytes, <<"0", "x", "0", "1">>),
     Item(Bytes, repeat_text(<<"a">>, 32)),
     Item(Uint(8), <<"2", "5", "6">>),
     Item(FixedArray(Uint(256), 2), <<"1", "2">>),
     Item(FixedArray(Bytes, 0), <<>>),
     Item(Tuple(<<Uint(256), Bool>>), <<"1", "t", "r", "u", "e">>),
     Item(Tuple(<<>>), <<>>),
     Item(Array(Uint(256)), <<"1", "2", "3">>)}

ParamLists == SeqsUpTo(ItemChoices, MaxItems)

----------------------------------------------------------------------------
(* The calls *)

Init ==
    /\ pc = "call"
    /\ ret = NoRet
    /\ items = <<>>
    /\ total_offset = 0
    /\ buf = <<>>
    /\ \/ /\ op = "from_str"
          /\ s \in TypeStrings
          /\ param_type = NoType /\ value_str = <<>> /\ self_items = <<>>
       \/ /\ op = "is_dynamic"
          /\ param_type \in AllTypes
          /\ s = <<>> /\ value_str = <<>> /\ self_items = <<>>
       \/ /\ op = "encode_single"
          /\ \E in \in EncodeInputs : param_type = in[1] /\ value_str = in[2]
          /\ s = <<>> /\ self_items = <<>>
       \/ /\ op = "encode"
          /\ self_items \in ParamLists
          /\ s = <<>> /\ param_type = NoType /\ value_str = <<>>

\* ParamType::from_str(s)
FromStr ==
    /\ pc = "call" /\ op = "from_str"
    /\ ret' = from_str(s)
    /\ pc' = "done"
    /\ UNCHANGED <<op, s, param_type, value_str, self_items, items, total_offset, buf>>

\* param_type.is_dynamic()
IsDynamic ==
    /\ pc = "call" /\ op = "is_dynamic"
    /\ ret' = Ok(is_dynamic(param_type))
    /\ pc' = "done"
    /\ UNCHANGED <<op, s, param_type, value_str, self_items, items, total_offset, buf>>

\* encode_single(&param_type, value_str)
EncodeSingle ==
    /\ pc = "call" /\ op = "encode_single"
    /\ ret' = encode_single(param_type, value_str)
    /\ pc' = "done"
    /\ UNCHANGED <<op, s, param_type, value_str, self_items, items, total_offset, buf>>

\* One ParamItem of the first pass of Params::encode.
ParamItem(it) ==
    IF maybe_dynamic(it.param_type)
    THEN [kind |-> "Dynamic", offset |-> -1,
          param_type |-> it.param_type, value_str |-> it.value_str]
    ELSE [kind |-> "Fixed", offset |-> -1,
          param_type |-> it.param_type, value_str |-> it.value_str]

\* What one item adds to total_offset in the first pass.
head_width(it) ==
    IF maybe_dynamic(it.param_type) THEN 32
    ELSE value_length(it.param_type, it.value_str)

RECURSIVE sum_head_width(_)
sum_head_width(its) ==
    IF its = <<>> THEN 0 ELSE head_width(Head(its)) + sum_head_width(Tail(its))

\* Params::encode, first pass: the map over self.items that builds the
\* ParamItem list and accumulates total_offset, then the empty buf.
EncodeSizePass ==
    /\ pc = "call" /\ op = "encode"
    /\ items' = [i \in 1..Len(self_items) |-> ParamItem(self_items[i])]
    /\ total_offset' = sum_head_width(self_items)
    /\ buf' = <<>>
    /\ pc' = "while"
    /\ UNCHANGED <<op, s, param_type, value_str, self_items, ret>>

\* What one item adds to total_offset in the loop body.
tail_width(item) ==
    IF item.kind = "Dynamic"
    THEN 32 + value_length(item.param_type, item.value_str)
    ELSE 0

RECURSIVE sum_tail_width(_)
sum_tail_width(its) ==
    IF its = <<>> THEN 0 ELSE tail_width(Head(its)) + sum_tail_width(Tail(its))

\* Params::encode, one iteration of `while !items.is_empty()`: every Dynamic
\* item gets its offset and advances total_offset, nothing is written to
\* buf, and items is replaced by next_items, which stays empty.
EncodeLoopIter ==
    /\ pc = "while" /\ op = "encode"
    /\ items # <<>>
    /\ total_offset' = total_offset + sum_tail_width(items)
    /\ items' = <<>>
    /\ UNCHANGED <<pc, op, s, param_type, value_str, self_items, buf, ret>>

\* Params::encode, loop exit: Ok(buf)
EncodeReturn ==
    /\ pc = "while" /\ op = "encode"
    /\ items = <<>>
    /\ ret' = Ok(buf)
    /\ pc' = "done"
    /\ UNCHANGED <<op, s, param_type, value_str, self_items, items, total_offset, buf>>

Next ==
    \/ FromStr
    \/ IsDynamic
    \/ EncodeSingle
    \/ EncodeSizePass
    \/ EncodeLoopIter
    \/ EncodeReturn

Spec == Init /\ [][Next]_vars

TypeOK ==
    /\ pc \in {"call", "while", "done"}
    /\ op \in {"from_str", "is_dynamic", "encode_single", "encode"}
    /\ ret.kind \in {"None", "Ok", "Err", "Panic"}

----------------------------------------------------------------------------
(* Vocabulary of the properties *)

Done(o) == pc = "done" /\ op = o

\* The error kind a message of the library stands for.
ErrorKind(msg) ==
    CASE msg = "Invalid param type" -> "InvalidType"
      [] msg = "Overflow" -> "Overflow"
      [] msg = "Invalid value" -> "InvalidSign"
      [] msg = "Invalid value for bool" -> "InvalidLiteral"
      [] msg = "Error value length" -> "LengthExceeded"
      [] OTHER -> "Other"

IsErr(r, kind) == r.kind = "Err" /\ ErrorKind(r.val) = kind

\* The 32-byte big-endian word of a natural below 2^24.
WordOf(n) ==
    [i \in 1..32 |->
        IF i = 32 THEN n % 256
        ELSE IF i = 31 THEN (n \div 256) % 256
        ELSE IF i = 30 THEN (n \div 65536) % 256
        ELSE 0]

AllDigits(t) == \A i \in 1..Len(t) : IsDigit(t[i])

\* A natural's decimal text: digits, no leading zero except for "0" itself.
IsCanonicalNat(t) == t # <<>> /\ AllDigits(t) /\ (Len(t) > 1 => t[1] # "0")

\* An integer's decimal text: a natural's, or "-" and the text of a
\* positive natural.
IsCanonicalInt(t) ==
    \/ IsCanonicalNat(t)
    \/ /\ Len(t) > 1 /\ t[1] = "-"
       /\ IsCanonicalNat(Tail(t)) /\ Tail(t) # <<"0">>

\* a < b for the decimal texts of two naturals
DecLess(a, b) ==
    \/ Len(a) < Len(b)
    \/ /\ Len(a) = Len(b)
       /\ \E i \in 1..Len(a) :
             /\ SubSeq(a, 1, i - 1) = SubSeq(b, 1, i - 1)
             /\ DigitVal(a[i]) < DigitVal(b[i])

\* The literal's value lies in the range the type declares:
\* 0 <= v < 2^m for Uint(m), -2^(m-1) <= v <= 2^(m-1) - 1 for Int(m).
InDeclaredRange(t, lit) ==
    IF t.tag = "Uint" THEN IsCanonicalNat(lit) /\ DecLess(lit, Pow2Dec[t.m])
    ELSE IF lit[1] = "-"
    THEN DecLess(Tail(lit), Pow2Dec[t.m - 1]) \/ Tail(lit) = Pow2Dec[t.m - 1]
    ELSE DecLess(lit, Pow2Dec[t.m - 1])

\* A decimal literal the type admits: no sign for Uint.
IsDecimalFor(t, lit) ==
    IF t.tag = "Uint" THEN IsCanonicalNat(lit) ELSE IsCanonicalInt(lit)

\* 2^256 - u for the 32 big-endian bytes of u > 0: complement, add one.
NegateWord(w) ==
    LET c == [i \in 1..32 |-> 255 - w[i]] IN
    [i \in 1..32 |->
        IF \A j \in (i + 1)..32 : c[j] = 255 THEN (c[i] + 1) % 256 ELSE c[i]]

\* The decimal text of the number 32 bytes stand for, read as a big-endian
\* unsigned number or as a 256-bit two's-complement number.
DecodeWord(w, signed) ==
    IF signed /\ w[1] >= 128 THEN <<"-">> \o BigToDec(NegateWord(w))
    ELSE BigToDec(w)

\* The bytes a literal stands for: hex-decoded after "0x", else its text.
LiteralBytes(lit) ==
    IF starts_with(lit, <<"0", "x">>) THEN from_hex(skip_chars(lit, 2))
    ELSE Ok(as_bytes(lit))

\* Zero bytes up to the next multiple of 32.
PadTo32(bytes) == bytes \o repeat_zero((32 - (Len(bytes) % 32)) % 32)

RECURSIVE NatOfDigits(_)
NatOfDigits(t) ==
    IF t = <<>> THEN 0
    ELSE 10 * NatOfDigits(SubSeq(t, 1, Len(t) - 1)) + DigitVal(t[Len(t)])

----------------------------------------------------------------------------
(* C1 *)

C1Encoded(it) == encode_single(it.param_type, it.value_str)

RECURSIVE C1HeadSize(_)
C1HeadSize(its) ==
    IF its = <<>> THEN 0
    ELSE (IF is_dynamic(Head(its).param_type) THEN 32
          ELSE Len(C1Encoded(Head(its)).val))
         + C1HeadSize(Tail(its))

RECURSIVE C1Layout(_, _, _, _)
\* Head and tail of the items from the given tail cursor on.
C1Layout(its, cursor, head, tail) ==
    IF its = <<>> THEN head \o tail
    ELSE LET e == C1Encoded(Head(its)).val IN
         IF is_dynamic(Head(its).param_type)
         THEN C1Layout(Tail(its), cursor + Len(e), head \o WordOf(cursor), tail \o e)
         ELSE C1Layout(Tail(its), cursor, head \o e, tail)

C1AllEncode == \A i \in 1..Len(self_items) : C1Encoded(self_items[i]).kind = "Ok"

\* C1: for a list whose members all encode, Params::encode returns the head
\* (static items in place, one offset word per dynamic item, the first offset
\* being the head size and each later one the previous plus the previous
\* payload's length) followed by the tail of the dynamic payloads.
C1_EncodeReturnsHeadThenTail ==
    (Done("encode") /\ C1AllEncode)
        => ret = Ok(C1Layout(self_items, C1HeadSize(self_items), <<>>, <<>>))

----------------------------------------------------------------------------
(* C2 *)

\* C2: for Uint(bits) and Int(bits) and a decimal literal, encode_single
\* returns an Overflow error exactly when the value is outside the declared
\* range, and a 32-byte word for every value inside it.
C2_OverflowExactlyOutsideRange ==
    (/\ Done("encode_single")
     /\ param_type.tag \in {"Uint", "Int"}
     /\ param_type.m \in BitsSet
     /\ IsDecimalFor(param_type, value_str))
        => IF InDeclaredRange(param_type, value_str)
           THEN ret.kind = "Ok" /\ Len(ret.val) = 32
           ELSE IsErr(ret, "Overflow")

----------------------------------------------------------------------------
(* C3 *)

RECURSIVE C3StaticWidth(_)
\* The encoded width of a static type: a word per scalar, the elements' or
\* the members' widths for a FixedArray or a Tuple.
C3StaticWidth(t) ==
    IF t.tag = "FixedArray" THEN t.len * C3StaticWidth(t.elem)
    ELSE IF t.tag = "Tuple"
    THEN LET W[i \in 0..Len(t.members)] ==
                 IF i = 0 THEN 0 ELSE W[i - 1] + C3StaticWidth(t.members[i])
         IN W[Len(t.members)]
    ELSE 32

RECURSIVE C3HeadSize(_)
C3HeadSize(its) ==
    IF its = <<>> THEN 0
    ELSE (IF is_dynamic(Head(its).param_type) THEN 32
          ELSE C3StaticWidth(Head(its).param_type))
         + C3HeadSize(Tail(its))

\* The state between the first pass of Params::encode and its loop.
C3AfterSizePass ==
    pc = "while" /\ op = "encode" /\ Len(items) = Len(self_items)

\* C3: after the size pass an item holds an offset slot iff its type is
\* dynamic, and the head size counts 32 bytes per dynamic item and the full
\* encoded width of every static item.
C3_OffsetSlotIffDynamic ==
    C3AfterSizePass
        => /\ \A i \in 1..Len(items) :
                 (items[i].kind = "Dynamic") <=> is_dynamic(self_items[i].param_type)
           /\ total_offset = C3HeadSize(self_items)

----------------------------------------------------------------------------
(* C4 *)

\* C4: encode_single on Fixed(m,n) or Ufixed(m,n) returns an UnsupportedType
\* error, never a byte sequence.
C4_FixedIsUnsupported ==
    (Done("encode_single") /\ param_type.tag \in {"Fixed", "Ufixed"})
        => ret.kind = "Err"

----------------------------------------------------------------------------
(* C5 *)

C5Prefix ==
    IF starts_with(s, <<"u", "i", "n", "t">>) THEN <<"u", "i", "n", "t">>
    ELSE IF starts_with(s, <<"i", "n", "t">>) THEN <<"i", "n", "t">>
    ELSE IF starts_with(s, <<"b", "y", "t", "e", "s">>) THEN <<"b", "y", "t", "e", "s">>
    ELSE <<>>

C5Suffix == skip_chars(s, Len(C5Prefix))

\* A base token (no array brackets) made of a sized prefix and a suffix.
C5IsSizedToken ==
    /\ C5Prefix # <<>>
    /\ C5Suffix # <<>>
    /\ \A i \in 1..Len(s) : s[i] \notin {"[", "]"}

C5Expected ==
    LET n == NatOfDigits(C5Suffix) IN
    IF ~AllDigits(C5Suffix) THEN Err("Invalid param type")
    ELSE IF C5Prefix = <<"b", "y", "t", "e", "s">>
    THEN IF 1 <= n /\ n <= 32 THEN Ok(FixedBytes(n)) ELSE Err("Invalid param type")
    ELSE IF 8 <= n /\ n <= 256 /\ n % 8 = 0
    THEN Ok(IF C5Prefix = <<"i", "n", "t">> THEN IntN(n) ELSE Uint(n))
    ELSE Err("Invalid param type")

\* C5: from_str on a sized base token gives Int(N) / Uint(N) iff the suffix
\* is a number N with 8 <= N <= 256 and N % 8 = 0, FixedBytes(N) iff
\* 1 <= N <= 32, and an InvalidType error for every other suffix.
C5_SizedTokenParsesIffInRange ==
    (Done("from_str") /\ C5IsSizedToken) => ret = C5Expected

----------------------------------------------------------------------------
(* C6 *)

C6IsHexChar(c) == IsDigit(c) \/ IsHexLower(c) \/ IsHexUpper(c)

\* A malformed numeric literal: bad, odd-length or over-long hex after "0x";
\* or a decimal magnitude that is empty, has a non-digit, or is 2^256 or more.
C6Malformed(t, lit) ==
    IF starts_with(lit, <<"0", "x">>)
    THEN LET h == skip_chars(lit, 2) IN
         \/ \E i \in 1..Len(h) : ~C6IsHexChar(h[i])
         \/ Len(h) % 2 = 1
         \/ Len(h) > 64
    ELSE LET signed == t.tag = "Int" /\ starts_with(lit, <<"-">>)
             mag == IF signed THEN Tail(lit) ELSE lit
         IN /\ ~starts_with(lit, <<"-">>) \/ t.tag = "Int"
            /\ \/ mag = <<>>
               \/ ~AllDigits(mag)
               \/ IsCanonicalNat(mag) /\ ~DecLess(mag, Pow2Dec[256])

\* C6: a malformed numeric literal for Int, Uint or Address comes back as an
\* error value (InvalidLiteral or Overflow); the call does not abort.
C6_MalformedNumberIsAnError ==
    (/\ Done("encode_single")
     /\ param_type.tag \in {"Int", "Uint", "Address"}
     /\ C6Malformed(param_type, value_str))
        => ret.kind = "Err"

----------------------------------------------------------------------------
(* C7 *)

\* C7: for FixedBytes(n), 1 <= n <= 32, and a literal of L bytes,
\* encode_single returns the L bytes and 32 - L zero bytes when L <= n, and
\* a LengthExceeded error when L > n.
C7_FixedBytesIsOneWord ==
    (/\ Done("encode_single")
     /\ param_type.tag = "FixedBytes"
     /\ param_type.m \in 1..32
     /\ LiteralBytes(value_str).kind = "Ok")
        => LET bytes == LiteralBytes(value_str).val IN
           IF Len(bytes) <= param_type.m
           THEN ret = Ok(bytes \o repeat_zero(32 - Len(bytes)))
           ELSE IsErr(ret, "LengthExceeded")

----------------------------------------------------------------------------
(* C8 *)

C8InRange ==
    /\ Done("encode_single")
    /\ param_type.tag \in {"Uint", "Int"}
    /\ param_type.m \in BitsSet
    /\ IsDecimalFor(param_type, value_str)
    /\ InDeclaredRange(param_type, value_str)

\* C8: for every bits in {8,16,...,256}, encoding Uint(bits) with the decimal
\* literal of v, 0 <= v < 2^bits, gives 32 bytes whose big-endian unsigned
\* value is v, and encoding Int(bits) with the decimal literal of v,
\* -2^(bits-1) <= v <= 2^(bits-1) - 1, gives 32 bytes whose 256-bit
\* two's-complement value is v.
C8_IntRoundTrip ==
    C8InRange
        => /\ ret.kind = "Ok"
           /\ Len(ret.val) = 32
           /\ DecodeWord(ret.val, param_type.tag = "Int") = value_str

\* Int(256) "-333" has been encoded, as ff..feb3.
C8_Witness ==
    /\ C8InRange
    /\ param_type = IntN(256)
    /\ value_str = <<"-", "3", "3", "3">>
    /\ ret.kind = "Ok"
    /\ SubSeq(ret.val, 30, 32) = <<255, 254, 179>>

----------------------------------------------------------------------------
(* C9 *)

\* C9: is_dynamic(t) is true iff t is Bytes, String or Array(_), or t is
\* FixedArray(e,n) with n > 0 and a dynamic e, or t is a Tuple with at least
\* one dynamic member; FixedArray(e,0) and the empty Tuple are static.
C9_IsDynamicCharacterised ==
    Done("is_dynamic")
        => (ret.val <=>
               \/ param_type.tag \in {"Bytes", "String", "Array"}
               \/ /\ param_type.tag = "FixedArray"
                  /\ param_type.len > 0
                  /\ is_dynamic(param_type.elem)
               \/ /\ param_type.tag = "Tuple"
                  /\ \E i \in 1..Len(param_type.members) :
                        is_dynamic(param_type.members[i]))

\* is_dynamic has answered for an empty fixed array of a dynamic element.
C9_Witness ==
    /\ Done("is_dynamic")
    /\ param_type = FixedArray(Bytes, 0)
    /\ ret = Ok(FALSE)

----------------------------------------------------------------------------
(* C10 *)

C10Payload ==
    IF param_type.tag = "Bytes" THEN LiteralBytes(value_str)
    ELSE Ok(as_bytes(value_str))

\* C10: for Bytes (hex-decoded after "0x", else the text's bytes) and String
\* (always the text's bytes) with a payload of L bytes, encode_single returns
\* the word L and the payload zero-padded to a multiple of 32 bytes, also
\* for texts whose characters take more than one byte.
C10_BytesAndStringLayout ==
    (/\ Done("encode_single")
     /\ param_type.tag \in {"Bytes", "String"}
     /\ C10Payload.kind = "Ok")
        => ret = Ok(WordOf(Len(C10Payload.val)) \o PadTo32(C10Payload.val))

====
